---- MODULE Spec2Model ----
(***************************************************************************)
(* A model of app/main.py: a thread-per-connection HTTP/1.1 server.        *)
(*                                                                         *)
(* Bytes are integers 0..255 and characters are code points, so that the   *)
(* UTF-8 and Latin-1 conversions of the program are real conversions.      *)
(* Text is a sequence of code points, a byte string a sequence of bytes.   *)
(*                                                                         *)
(* A client sends one whole request and then waits for the answer with the *)
(* connection open; recv may return any non-empty prefix of what is still  *)
(* to be read.  A worker is the thread start() creates for a connection,   *)
(* and each action is one stretch of handle_request between two points     *)
(* where another thread's file operations can be observed.  Spec serves    *)
(* the clients one after another, ConcSpec serves them concurrently.       *)
(* gzip.compress is a gzip member with a stored block; its check value is  *)
(* a byte sum.  Opening a file for writing outside the served directory    *)
(* succeeds or fails as the host decides.                                  *)
(***************************************************************************)
EXTENDS Integers, Sequences, FiniteSets, TLC

(***************************************************************************)
(* Bounds of the model.                                                    *)
(***************************************************************************)
\* Number of connection workers that run concurrently under ConcSpec.
MaxConns == 2

(***************************************************************************)
(* Characters.                                                             *)
(***************************************************************************)
Printable ==
  << " ", "!", "DQUOTE", "#", "$", "%", "&", "'", "(", ")", "*", "+", ",", "-", ".", "/",
     "0", "1", "2", "3", "4", "5", "6", "7", "8", "9", ":", ";", "<", "=", ">", "?",
     "@", "A", "B", "C", "D", "E", "F", "G", "H", "I", "J", "K", "L", "M", "N", "O",
     "P", "Q", "R", "S", "T", "U", "V", "W", "X", "Y", "Z", "[", "BACKSLASH", "]", "^", "_",
     "BACKTICK", "a", "b", "c", "d", "e", "f", "g", "h", "i", "j", "k", "l", "m", "n", "o",
     "p", "q", "r", "s", "t", "u", "v", "w", "x", "y", "z", "{", "|", "}", "~" >>

\* Code point of a printable ASCII character (the three the model never writes
\* are named, not quoted), of carriage return or of line feed.
Ord(c) ==
  IF c = "\r" THEN 13
  ELSE IF c = "\n" THEN 10
  ELSE 31 + (CHOOSE i \in 1..Len(Printable) : Printable[i] = c)

\* The text whose characters are the one-character strings of s.
Txt(s) == [i \in 1..Len(s) |-> Ord(s[i])]

CR == Ord("\r")
LF == Ord("\n")
CRLF == <<CR, LF>>

\* Python's str.isspace on the code points the model uses.
IsSpace(c) == c \in {9, 10, 11, 12, 13, 28, 29, 30, 31, 32, 133, 160}

\* str.lower / str.upper on one code point (ASCII letters; the model holds no
\* other cased letter).
LowerChar(c) == IF c >= 65 /\ c <= 90 THEN c + 32 ELSE c
UpperChar(c) == IF c >= 97 /\ c <= 122 THEN c - 32 ELSE c
Lower(s) == [i \in 1..Len(s) |-> LowerChar(s[i])]
Upper(s) == [i \in 1..Len(s) |-> UpperChar(s[i])]

(***************************************************************************)
(* Sequence helpers with the meaning of the Python string methods.         *)
(***************************************************************************)
Min(a, b) == IF a <= b THEN a ELSE b

Drop(s, n) == SubSeq(s, n + 1, Len(s))
Take(s, n) == SubSeq(s, 1, n)

\* s.startswith(p)
StartsWith(s, p) == Len(s) >= Len(p) /\ Take(s, Len(p)) = p

\* s.find(sep): the first index at which sep occurs in s, 0 when it does not.
Find(s, sep) ==
  LET hits == {i \in 1..(Len(s) - Len(sep) + 1) : SubSeq(s, i, i + Len(sep) - 1) = sep}
  IN IF hits = {} THEN 0 ELSE CHOOSE i \in hits : \A j \in hits : i <= j

\* sep in s
Contains(s, sep) == Find(s, sep) # 0

\* s.split(sep): all the pieces, empty ones included.
RECURSIVE Split(_, _)
Split(s, sep) ==
  LET i == Find(s, sep)
  IN IF i = 0 THEN <<s>>
     ELSE <<Take(s, i - 1)>> \o Split(Drop(s, i + Len(sep) - 1), sep)

\* s.split(sep, 1): at most one cut.
Split1(s, sep) ==
  LET i == Find(s, sep)
  IN IF i = 0 THEN <<s>> ELSE <<Take(s, i - 1), Drop(s, i + Len(sep) - 1)>>

\* s.split(): cut on runs of whitespace, no empty piece.
RECURSIVE SplitWs(_)
SplitWs(s) ==
  IF s = <<>> THEN <<>>
  ELSE IF IsSpace(s[1]) THEN SplitWs(Tail(s))
  ELSE LET ends == {i \in 1..Len(s) : IsSpace(s[i])}
           e == IF ends = {} THEN Len(s) + 1
                ELSE CHOOSE i \in ends : \A j \in ends : i <= j
       IN <<Take(s, e - 1)>> \o SplitWs(Drop(s, e - 1))

\* s.strip()
RECURSIVE LStrip(_)
LStrip(s) == IF s # <<>> /\ IsSpace(s[1]) THEN LStrip(Tail(s)) ELSE s
RECURSIVE RStrip(_)
RStrip(s) == IF s # <<>> /\ IsSpace(s[Len(s)]) THEN RStrip(Take(s, Len(s) - 1)) ELSE s
Strip(s) == LStrip(RStrip(s))

\* s.rstrip('\n')
RECURSIVE RStripLF(_)
RStripLF(s) == IF s # <<>> /\ s[Len(s)] = LF THEN RStripLF(Take(s, Len(s) - 1)) ELSE s

\* ''.join(parts)
RECURSIVE Concat(_)
Concat(parts) == IF parts = <<>> THEN <<>> ELSE Head(parts) \o Concat(Tail(parts))

(***************************************************************************)
(* Codecs.                                                                 *)
(***************************************************************************)
\* str.encode('utf-8') of one code point.
Utf8Char(c) ==
  IF c < 128 THEN <<c>>
  ELSE IF c < 2048 THEN <<192 + (c \div 64), 128 + (c % 64)>>
  ELSE <<224 + (c \div 4096), 128 + ((c \div 64) % 64), 128 + (c % 64)>>

\* str.encode('utf-8'): the encodings of the characters, in order (the text
\* is halved at each step to keep the evaluation shallow).
RECURSIVE Utf8Encode(_)
Utf8Encode(s) ==
  IF s = <<>> THEN <<>>
  ELSE IF Len(s) = 1 THEN Utf8Char(s[1])
  ELSE Utf8Encode(Take(s, Len(s) \div 2)) \o Utf8Encode(Drop(s, Len(s) \div 2))

IsCont(b) == b >= 128 /\ b <= 191

\* The decoding of a byte string, an undecodable byte shown as -1. A run of
\* ASCII bytes is taken in one step.
RECURSIVE Utf8Scan(_)
Utf8Scan(b) ==
  IF \A i \in 1..Len(b) : b[i] < 128 THEN b
  ELSE IF b[1] < 128
       THEN LET n == CHOOSE i \in 1..Len(b) : b[i] >= 128 /\ \A j \in 1..(i - 1) : b[j] < 128
            IN Take(b, n - 1) \o Utf8Scan(Drop(b, n - 1))
  ELSE IF b[1] >= 194 /\ b[1] <= 223 /\ Len(b) >= 2 /\ IsCont(b[2])
       THEN <<(b[1] - 192) * 64 + (b[2] - 128)>> \o Utf8Scan(Drop(b, 2))
  ELSE IF b[1] >= 224 /\ b[1] <= 239 /\ Len(b) >= 3 /\ IsCont(b[2]) /\ IsCont(b[3])
          /\ (b[1] - 224) * 4096 + (b[2] - 128) * 64 + (b[3] - 128) >= 2048
       THEN <<(b[1] - 224) * 4096 + (b[2] - 128) * 64 + (b[3] - 128)>>
            \o Utf8Scan(Drop(b, 3))
  ELSE <<-1>> \o Utf8Scan(Tail(b))

\* Whether bytes.decode('utf-8') returns (it raises UnicodeDecodeError if not).
Utf8Valid(b) == LET s == Utf8Scan(b) IN \A i \in 1..Len(s) : s[i] # -1

\* bytes.decode('utf-8'), of a byte string that is Utf8Valid.
Utf8Decode(b) == Utf8Scan(b)

\* bytes.decode('utf-8', errors='replace')
Utf8DecodeReplace(b) ==
  LET s == Utf8Scan(b)
  IN [i \in 1..Len(s) |-> IF s[i] = -1 THEN 65533 ELSE s[i]]

\* bytes.decode('latin1'): byte n is code point n.
Latin1Decode(b) == [i \in 1..Len(b) |-> b[i]]

\* str(n) for n >= 0
RECURSIVE Str(_)
Str(n) == IF n < 10 THEN <<48 + n>> ELSE Str(n \div 10) \o <<48 + (n % 10)>>

IsDigit(c) == c >= 48 /\ c <= 57

RECURSIVE DigitsValue(_)
DigitsValue(s) ==
  IF s = <<>> THEN 0 ELSE DigitsValue(Take(s, Len(s) - 1)) * 10 + (s[Len(s)] - 48)

\* Whether int(s) returns (it raises ValueError if not): digits, whitespace
\* allowed around them. The model's requests carry no sign and no underscore.
IntValid(s) ==
  LET t == Strip(s) IN t # <<>> /\ \A i \in 1..Len(t) : IsDigit(t[i])

\* int(s), of a text that is IntValid.
ParseInt(s) == DigitsValue(Strip(s))

HexValue(c) ==
  IF IsDigit(c) THEN c - 48
  ELSE IF c >= 65 /\ c <= 70 THEN c - 55
  ELSE IF c >= 97 /\ c <= 102 THEN c - 87
  ELSE -1

Percent == Ord("%")

\* urllib.parse.unquote_to_bytes on ASCII text: %XX becomes the byte XX, a
\* percent sign not followed by two hex digits stays.
RECURSIVE UnquoteToBytes(_)
UnquoteToBytes(s) ==
  IF ~Contains(s, <<Percent>>) THEN Utf8Encode(s)
  ELSE IF s[1] = Percent /\ Len(s) >= 3 /\ HexValue(s[2]) >= 0 /\ HexValue(s[3]) >= 0
       THEN <<HexValue(s[2]) * 16 + HexValue(s[3])>> \o UnquoteToBytes(Drop(s, 3))
  ELSE Utf8Char(s[1]) \o UnquoteToBytes(Tail(s))

\* urllib.parse.unquote: the escapes are bytes of UTF-8 text, undecodable ones
\* replaced. (unquote decodes each ASCII run apart; a non-ASCII character ends
\* a run and can neither complete nor break a multi-byte sequence, so decoding
\* the whole text at once gives the same result.)
Unquote(s) == Utf8DecodeReplace(UnquoteToBytes(s))

(***************************************************************************)
(* Enumerations and literals of the program.                               *)
(***************************************************************************)
GET == Txt(<<"G", "E", "T">>)
POST == Txt(<<"P", "O", "S", "T">>)
PUT == Txt(<<"P", "U", "T">>)

\* HTTPMethod: the member names, which are also the member values.
HTTPMethod == {GET, POST, PUT}

NONE == Txt(<<"N", "O", "N", "E">>)
GZIP == Txt(<<"G", "Z", "I", "P">>)

\* ContentEncoding._member_names_
ContentEncoding == {NONE, GZIP}

ColonSpace == Txt(<<":", " ">>)
Comma == Txt(<<",">>)
Question == Txt(<<"?">>)
Slash == Txt(<<"/">>)
KeyAcceptEncoding ==
  Txt(<<"a", "c", "c", "e", "p", "t", "-", "e", "n", "c", "o", "d", "i", "n", "g">>)
KeyContentLength ==
  Txt(<<"c", "o", "n", "t", "e", "n", "t", "-", "l", "e", "n", "g", "t", "h">>)
KeyUserAgent == Txt(<<"u", "s", "e", "r", "-", "a", "g", "e", "n", "t">>)
HdrContentType ==
  Txt(<<"C", "o", "n", "t", "e", "n", "t", "-", "T", "y", "p", "e">>)
HdrContentEncoding ==
  Txt(<<"C", "o", "n", "t", "e", "n", "t", "-", "E", "n", "c", "o", "d", "i", "n", "g">>)
HdrContentLength ==
  Txt(<<"C", "o", "n", "t", "e", "n", "t", "-", "L", "e", "n", "g", "t", "h">>)
TextPlain == Txt(<<"t", "e", "x", "t", "/", "p", "l", "a", "i", "n">>)
OctetStream ==
  Txt(<<"a", "p", "p", "l", "i", "c", "a", "t", "i", "o", "n", "/",
        "o", "c", "t", "e", "t", "-", "s", "t", "r", "e", "a", "m">>)
GzipValue == Txt(<<"g", "z", "i", "p">>)
BodyOK == Txt(<<"O", "K">>)
Body404 == Txt(<<"4", "0", "4", " ", "N", "o", "t", " ", "F", "o", "u", "n", "d">>)
NoUserAgent ==
  Txt(<<"N", "o", " ", "U", "s", "e", "r", "-", "A", "g", "e", "n", "t", " ",
        "f", "o", "u", "n", "d">>)
RouteRoot == Txt(<<"/">>)
RouteEcho == Txt(<<"/", "e", "c", "h", "o">>)
RouteUserAgent == Txt(<<"/", "u", "s", "e", "r", "-", "a", "g", "e", "n", "t">>)
RouteFiles == Txt(<<"/", "f", "i", "l", "e", "s">>)
EchoPrefix == RouteEcho \o Slash
FilesPrefix == RouteFiles \o Slash
HttpVersion == Txt(<<"H", "T", "T", "P", "/", "1", ".", "1">>)

(***************************************************************************)
(* HTTPRequest.from_raw_request                                            *)
(***************************************************************************)
\* The encodings an Accept-Encoding value names: each comma-separated token
\* stripped and case-folded, kept when it is a member name of ContentEncoding.
RECURSIVE ParseEncodings(_)
ParseEncodings(tokens) ==
  IF tokens = <<>> THEN <<>>
  ELSE LET encoding == Lower(Strip(Head(tokens)))
       IN (IF Upper(encoding) \in ContentEncoding THEN <<Upper(encoding)>> ELSE <<>>)
          \o ParseEncodings(Tail(tokens))

\* The loop over lines[1:], st holding its variables.
RECURSIVE ParseLines(_, _)
ParseLines(lines, st) ==
  IF lines = <<>> THEN st
  ELSE LET line == Head(lines)
           rest == Tail(lines)
       IN IF line = <<>> THEN ParseLines(rest, [st EXCEPT !.is_body = TRUE])
          ELSE IF st.is_body
               THEN ParseLines(rest, [st EXCEPT !.body = @ \o line \o <<LF>>])
          ELSE IF Contains(line, ColonSpace)
               THEN LET kv == Split1(line, ColonSpace)
                        key == Lower(kv[1])
                        value == kv[2]
                    IN ParseLines(rest,
                         [st EXCEPT
                            !.headers = (key :> value) @@ @,
                            !.encodings = IF key = KeyAcceptEncoding
                                          THEN ParseEncodings(Split(value, Comma))
                                          ELSE @])
          ELSE ParseLines(rest, st)

\* Whether lines 38-40 return: the request line has a first token that names
\* a member of HTTPMethod (KeyError, or IndexError when there is no token, if
\* not) and a second token (IndexError if not).
RequestLineValid(raw_request) ==
  LET request_line == SplitWs(Split(raw_request, CRLF)[1])
  IN Len(request_line) >= 2 /\ request_line[1] \in HTTPMethod

\* The request a raw text decodes to, its request line being valid.
FromRawRequest(raw_request) ==
  LET lines == Split(raw_request, CRLF)
      request_line == SplitWs(lines[1])
      st == ParseLines(Tail(lines),
              [is_body |-> FALSE, headers |-> <<>>, body |-> <<>>, encodings |-> <<>>])
  IN [method |-> request_line[1],
      target |-> request_line[2],
      headers |-> st.headers,
      body |-> RStripLF(st.body),
      encodings |-> st.encodings]

HasGzip(request) == \E i \in 1..Len(request.encodings) : request.encodings[i] = GZIP

\* HTTPRequest.set_content_encoding_header
SetContentEncodingHeader(request) ==
  IF HasGzip(request)
  THEN [request EXCEPT !.headers = (HdrContentEncoding :> GzipValue) @@ @]
  ELSE request

(***************************************************************************)
(* HTTPResponse                                                            *)
(***************************************************************************)
HTTPResponse(status_code, headers, body) ==
  [status_code |-> status_code, headers |-> headers, body |-> body]

\* HTTPResponse.get_reason_phrase
GetReasonPhrase(status_code) ==
  IF status_code = 200 THEN Txt(<<"O", "K">>)
  ELSE IF status_code = 201 THEN Txt(<<"C", "r", "e", "a", "t", "e", "d">>)
  ELSE IF status_code = 404 THEN Txt(<<"N", "o", "t", " ", "F", "o", "u", "n", "d">>)
  ELSE IF status_code = 500
       THEN Txt(<<"I", "n", "t", "e", "r", "n", "a", "l", " ", "S", "e", "r", "v", "e", "r",
                  " ", "E", "r", "r", "o", "r">>)
  ELSE <<>>

\* The status line and the header lines, each ended by CR LF, and the blank
\* line: the part of the raw response before the body.
ResponseHead(response) ==
  HttpVersion \o Txt(<<" ">>) \o Str(response.status_code) \o Txt(<<" ">>)
  \o GetReasonPhrase(response.status_code) \o CRLF
  \o Concat([i \in 1..Len(response.headers) |->
               response.headers[i][1] \o ColonSpace \o response.headers[i][2] \o CRLF])
  \o CRLF

\* HTTPResponse.to_raw_response
ToRawResponse(response) == ResponseHead(response) \o response.body

(***************************************************************************)
(* gzip.compress: a gzip member (RFC 1952). The ten header bytes are the   *)
(* ones the library writes (magic 1f 8b, method 8, no flags, a four-byte   *)
(* timestamp, XFL 2, OS 255). The DEFLATE stream is written here as one    *)
(* stored block and the check value as a byte sum, both in place of the    *)
(* library's output; the length field is the real one.                     *)
(***************************************************************************)
RECURSIVE ByteSum(_)
ByteSum(b) ==
  IF b = <<>> THEN 0
  ELSE IF Len(b) = 1 THEN b[1]
  ELSE ByteSum(Take(b, Len(b) \div 2)) + ByteSum(Drop(b, Len(b) \div 2))

\* n as four bytes, least significant first.
LE32(n) == <<n % 256, (n \div 256) % 256, (n \div 65536) % 256, (n \div 16777216) % 256>>

Gzip(data) ==
  <<31, 139, 8, 0, 0, 0, 0, 0, 2, 255>>
  \o <<1, Len(data) % 256, (Len(data) \div 256) % 256,
       255 - (Len(data) % 256), 255 - ((Len(data) \div 256) % 256)>>
  \o data
  \o LE32(ByteSum(data)) \o LE32(Len(data))

(***************************************************************************)
(* The handlers of HTTPServerWithRoutes that touch no file.                *)
(***************************************************************************)
\* Negotiated with the slip of compressing whenever the request names any
\* recognized encoding at all.
NegotiatedAnyEncoding(request, status_code, content_type, body) ==
  LET gz == request.encodings # <<>>
      out == IF gz THEN Latin1Decode(Gzip(Utf8Encode(body))) ELSE body
  IN HTTPResponse(status_code,
       <<<<HdrContentType, content_type>>>>
       \o (IF gz THEN <<<<HdrContentEncoding, GzipValue>>>> ELSE <<>>)
       \o <<<<HdrContentLength, Str(Len(out))>>>>,
       out)

\* The body and headers every text handler builds: the body compressed and
\* Content-Encoding set when the request accepts gzip, then Content-Length
\* set to the length of the body string.
Negotiated(request, status_code, content_type, body) ==
  LET gz == HasGzip(request)
      out == IF gz THEN Latin1Decode(Gzip(Utf8Encode(body))) ELSE body
  IN HTTPResponse(status_code,
       <<<<HdrContentType, content_type>>>>
       \o (IF gz THEN <<<<HdrContentEncoding, GzipValue>>>> ELSE <<>>)
       \o <<<<HdrContentLength, Str(Len(out))>>>>,
       out)

HandleRoot(request) == Negotiated(request, 200, TextPlain, BodyOK)

\* split('/echo/', 1)[-1] of the whole target, then unquote.
EchoedString(request) ==
  LET parts == Split1(request.target, EchoPrefix)
  IN Unquote(parts[Len(parts)])

HandleEcho(request) == Negotiated(request, 200, TextPlain, EchoedString(request))

UserAgent(request) ==
  IF KeyUserAgent \in DOMAIN request.headers
  THEN request.headers[KeyUserAgent]
  ELSE NoUserAgent

HandleUserAgent(request) == Negotiated(request, 200, TextPlain, UserAgent(request))

Handle404(request) == Negotiated(request, 404, TextPlain, Body404)

(***************************************************************************)
(* handle_files, cut at its file operations.                               *)
(***************************************************************************)
\* The served directory: the default of the command line.
Directory == Txt(<<"/", "t", "m", "p">>)

\* os.path.join(directory, filename)
PathJoin(a, b) ==
  IF StartsWith(b, Slash) THEN b
  ELSE IF a = <<>> \/ a[Len(a)] = Ord("/") THEN a \o b
  ELSE a \o Slash \o b

Filename(request) ==
  LET parts == Split1(request.target, FilesPrefix)
  IN parts[Len(parts)]

Filepath(request) == PathJoin(Directory, Filename(request))

\* The directories of the model's file system: the root and the served
\* directory.
IsDirectory(path) == path \in {Slash, Directory, Directory \o Slash}

\* A name directly in the served directory, where the server can create files.
InServedDirectory(path) ==
  /\ StartsWith(path, Directory \o Slash)
  /\ Len(path) > Len(Directory) + 1
  /\ ~Contains(Drop(path, Len(Directory) + 1), Slash)

\* A name directly in the root directory, which os.path.join gives for a
\* filename that starts with a slash (the target /files gives /files).
InRootDirectory(path) ==
  /\ StartsWith(path, Slash)
  /\ Len(path) > 1
  /\ ~Contains(Tail(path), Slash)

\* Whether open(path, 'wb') returns (it raises OSError if not): never on a
\* directory or in a directory that does not exist; in the root directory
\* the host's permissions decide, so both outcomes are possible.
OpenForWrite(fs, path) ==
  IF IsDirectory(path) THEN {FALSE}
  ELSE IF path \in DOMAIN fs \/ InServedDirectory(path) THEN {TRUE}
  ELSE IF InRootDirectory(path) THEN {TRUE, FALSE}
  ELSE {FALSE}

\* os.path.exists
Exists(fs, path) == path \in DOMAIN fs \/ IsDirectory(path)

\* Whether lines 175-182 raise on the bytes read: with gzip accepted the
\* compressed content is a str and the final file_content.decode raises
\* AttributeError; without, the content must be UTF-8 text or the decode
\* raises UnicodeDecodeError.
FileGetRaises(request, file_content) ==
  HasGzip(request) \/ ~Utf8Valid(file_content)

\* Lines 175-182 on the bytes read, when they do not raise.
FileGetResponse(request, file_content) ==
  HTTPResponse(200,
    <<<<HdrContentType, OctetStream>>, <<HdrContentLength, Str(Len(file_content))>>>>,
    Utf8Decode(file_content))

\* Lines 188-192
FilePostResponse ==
  HTTPResponse(201, <<<<HdrContentType, OctetStream>>, <<HdrContentLength, Str(0)>>>>, <<>>)

(***************************************************************************)
(* Routing: handle_request lines 128-129 and handle_dynamic_route.         *)
(***************************************************************************)
TargetPath(request) == Split(request.target, Question)[1]

\* The handler the request goes to.
Route(request) ==
  LET target_path == TargetPath(request)
  IN IF target_path = RouteRoot THEN "root"
     ELSE IF target_path = RouteEcho THEN "echo"
     ELSE IF target_path = RouteUserAgent THEN "user_agent"
     ELSE IF target_path = RouteFiles THEN "files"
     ELSE IF StartsWith(request.target, EchoPrefix) THEN "echo"
     ELSE IF StartsWith(request.target, FilesPrefix) THEN "files"
     ELSE "404"

(***************************************************************************)
(* The clients: what a client may send on a connection.                    *)
(***************************************************************************)
Client(method, target, headers, body) ==
  [method |-> method, target |-> target, headers |-> headers, body |-> body]

\* The bytes of a client's request: request line, header lines, blank line,
\* body.
Render(c) ==
  c.method \o Txt(<<" ">>) \o c.target \o Txt(<<" ">>) \o HttpVersion \o CRLF
  \o Concat([i \in 1..Len(c.headers) |->
               c.headers[i][1] \o ColonSpace \o c.headers[i][2] \o CRLF])
  \o CRLF \o c.body

AcceptEncoding(value) ==
  <<Txt(<<"A", "c", "c", "e", "p", "t", "-", "E", "n", "c", "o", "d", "i", "n", "g">>),
    value>>
ContentLength(n) == <<HdrContentLength, Str(n)>>
UserAgentX == <<Txt(<<"U", "s", "e", "r", "-", "A", "g", "e", "n", "t">>), Txt(<<"x">>)>>

TargetEchoAbc == EchoPrefix \o Txt(<<"a", "b", "c">>)
TargetEchoQuery == EchoPrefix \o Txt(<<"a", "%", "2", "F", "b", "?", "x", "=", "1">>)
TargetEchoAccent == EchoPrefix \o Txt(<<"%", "C", "3", "%", "A", "9">>)
TargetNope == Txt(<<"/", "n", "o", "p", "e">>)
TargetFileA == FilesPrefix \o Txt(<<"a">>)
PathA == Directory \o Slash \o Txt(<<"a">>)

AEGzip == GzipValue
AEMixed == Txt(<<"b", "r", ",", " ", "G", "Z", "i", "p">>)
AENone == Txt(<<"n", "o", "n", "e">>)

BodyHi == Txt(<<"h", "i">>)
BodyLines == Txt(<<"a", "\r", "\n", "b">>)
BodyNewline == Txt(<<"h", "i", "\n">>)
BodyHowdy == Txt(<<"h", "o", "w", "d", "y">>)
DELETE == Txt(<<"D", "E", "L", "E", "T", "E">>)

\* The requests of the sequential specification.
Requests ==
  {Client(GET, t, <<>>, <<>>) :
     t \in {RouteRoot, TargetEchoAbc, TargetEchoQuery, TargetEchoAccent, RouteEcho,
            RouteFiles, TargetNope, RouteUserAgent, TargetFileA}}
  \cup {Client(m, t, <<>>, <<>>) : m \in {PUT, POST}, t \in {TargetNope, TargetFileA}}
  \cup {Client(GET, t, <<AcceptEncoding(v)>>, <<>>) :
          t \in {RouteRoot, TargetEchoAbc, RouteUserAgent, TargetNope, TargetFileA},
          v \in {AEGzip, AENone}}
  \cup {Client(GET, TargetEchoAbc, <<AcceptEncoding(AEMixed)>>, <<>>)}
  \cup {Client(GET, RouteUserAgent, <<UserAgentX>>, <<>>),
        Client(DELETE, RouteRoot, <<>>, <<>>)}
  \cup {Client(POST, TargetFileA, <<>>, b) : b \in {BodyLines, BodyNewline}}
  \cup {Client(POST, TargetFileA, <<ContentLength(Len(b))>>, b) : b \in {BodyHi, BodyLines}}
  \cup {Client(POST, TargetFileA, <<AcceptEncoding(AEGzip)>>, BodyHi)}

\* The requests of the concurrent specification: reads and writes of one file.
ConcRequests ==
  {Client(GET, TargetFileA, <<>>, <<>>)}
  \cup {Client(POST, TargetFileA, <<ContentLength(Len(b))>>, b) : b \in {BodyHi, BodyHowdy}}

\* The Content-Length a client declares, -1 when it declares none.
DeclaredLength(c) ==
  LET is == {i \in 1..Len(c.headers) : c.headers[i][1] = HdrContentLength}
  IN IF is = {} THEN -1 ELSE ParseInt(c.headers[CHOOSE i \in is : TRUE][2])

\* The served directory at start: empty, or holding a text file or a file
\* that is not UTF-8 text.
InitialFiles == {<<>>, (PathA :> Txt(<<"o", "k">>)), (PathA :> <<255>>)}

(***************************************************************************)
(* State.                                                                  *)
(***************************************************************************)
Workers == 1..MaxConns

\* The buffer size of one recv.
RecvSize == 1024

VARIABLES
  pc,        \* pc[w]: where worker w is: "idle", "recv", "body", "read", "write",
             \*        "send", "closed", or "faulted" (ended by an exception)
  pending,   \* pending[w]: the bytes the client of w has yet to deliver
  first,     \* first[w]: the number of bytes the first read returned (history)
  client,    \* client[w]: what the client of w sends (history)
  req,       \* req[w]: the request of handle_request
  content,   \* content[w]: file_content of handle_files
  resp,      \* resp[w]: <<response>> of the handler, <<>> for None
  wire,      \* wire[w]: the bytes written to the socket
  sockopen,  \* sockopen[w]: the client socket is open
  err,       \* err[w]: the exception that ended w, after the place it was raised
  files,     \* the regular files: path -> bytes
  posted     \* posted[path]: the client's body of the last POST written to
             \*               path, kept when its request came in one read
             \*               (history)

vars == <<pc, pending, first, client, req, content, resp, wire, sockopen, err, files, posted>>

NoClient == Client(<<>>, <<>>, <<>>, <<>>)
NoRequest ==
  [method |-> <<>>, target |-> <<>>, headers |-> <<>>, body |-> <<>>, encodings |-> <<>>]

Init ==
  /\ pc = [w \in Workers |-> "idle"]
  /\ pending = [w \in Workers |-> <<>>]
  /\ first = [w \in Workers |-> 0]
  /\ client = [w \in Workers |-> NoClient]
  /\ req = [w \in Workers |-> NoRequest]
  /\ content = [w \in Workers |-> <<>>]
  /\ resp = [w \in Workers |-> <<>>]
  /\ wire = [w \in Workers |-> <<>>]
  /\ sockopen = [w \in Workers |-> FALSE]
  /\ err = [w \in Workers |-> ""]
  /\ files \in InitialFiles
  /\ posted = <<>>

(***************************************************************************)
(* Actions.                                                                *)
(***************************************************************************)
\* The worker ends with an exception; the socket is not closed by the code.
Raise(w, what) ==
  /\ pc' = [pc EXCEPT ![w] = "faulted"]
  /\ err' = [err EXCEPT ![w] = what]

\* start, lines 111-113: a connection is accepted and its thread started.
Accept(w, c) ==
  /\ pc[w] \in {"idle", "closed", "faulted"}
  /\ pc' = [pc EXCEPT ![w] = "recv"]
  /\ pending' = [pending EXCEPT ![w] = Render(c)]
  /\ first' = [first EXCEPT ![w] = 0]
  /\ client' = [client EXCEPT ![w] = c]
  /\ req' = [req EXCEPT ![w] = NoRequest]
  /\ content' = [content EXCEPT ![w] = <<>>]
  /\ resp' = [resp EXCEPT ![w] = <<>>]
  /\ wire' = [wire EXCEPT ![w] = <<>>]
  /\ sockopen' = [sockopen EXCEPT ![w] = TRUE]
  /\ err' = [err EXCEPT ![w] = ""]
  /\ UNCHANGED <<files, posted>>

\* handle_request, lines 116-121: the first read, of k bytes, is decoded and
\* parsed, and a Content-Length header is converted.
Recv(w, k) ==
  /\ pc[w] = "recv"
  /\ k >= 1 /\ k <= Len(pending[w]) /\ k <= RecvSize
  /\ pending' = [pending EXCEPT ![w] = Drop(@, k)]
  /\ first' = [first EXCEPT ![w] = k]
  /\ LET chunk == Take(pending[w], k)
         request == FromRawRequest(Utf8Decode(chunk))
     IN IF ~Utf8Valid(chunk)
        THEN Raise(w, "recv: UnicodeDecodeError") /\ UNCHANGED req
        ELSE IF ~RequestLineValid(Utf8Decode(chunk))
        THEN Raise(w, "parse: KeyError or IndexError") /\ UNCHANGED req
        ELSE IF KeyContentLength \in DOMAIN request.headers
                /\ ~IntValid(request.headers[KeyContentLength])
        THEN Raise(w, "length: ValueError") /\ req' = [req EXCEPT ![w] = request]
        ELSE /\ pc' = [pc EXCEPT ![w] = "body"]
             /\ req' = [req EXCEPT ![w] = request]
             /\ UNCHANGED err
  /\ UNCHANGED <<client, content, resp, wire, sockopen, files, posted>>

\* The condition of the loop of line 123.
NeedsMore(request) ==
  /\ KeyContentLength \in DOMAIN request.headers
  /\ Len(Utf8Encode(request.body)) < ParseInt(request.headers[KeyContentLength])

\* handle_request, lines 123-124: one more read, of k bytes, joins the body.
ReadBody(w, k) ==
  /\ pc[w] = "body"
  /\ NeedsMore(req[w])
  /\ k >= 1 /\ k <= Len(pending[w]) /\ k <= RecvSize
  /\ pending' = [pending EXCEPT ![w] = Drop(@, k)]
  /\ LET chunk == Take(pending[w], k)
     IN IF ~Utf8Valid(chunk)
        THEN Raise(w, "body: UnicodeDecodeError") /\ UNCHANGED req
        ELSE /\ req' = [req EXCEPT ![w].body = @ \o Utf8Decode(chunk)]
             /\ UNCHANGED <<pc, err>>
  /\ UNCHANGED <<first, client, content, resp, wire, sockopen, files, posted>>

\* The response of a handler that touches no file.
TextHandler(route, request) ==
  IF route = "root" THEN HandleRoot(request)
  ELSE IF route = "echo" THEN HandleEcho(request)
  ELSE IF route = "user_agent" THEN HandleUserAgent(request)
  ELSE Handle404(request)

\* handle_request, lines 127-130, up to the handler's return or, in
\* handle_files, to its first file operation done: os.path.exists for a GET,
\* open(filepath, 'wb'), which empties the file, for a POST.
Dispatch(w) ==
  /\ pc[w] = "body"
  /\ ~NeedsMore(req[w])
  /\ LET request == SetContentEncodingHeader(req[w])
         route == Route(request)
         filepath == Filepath(request)
     IN /\ req' = [req EXCEPT ![w] = request]
        /\ IF route # "files"
           THEN /\ resp' = [resp EXCEPT ![w] = <<TextHandler(route, request)>>]
                /\ pc' = [pc EXCEPT ![w] = "send"]
                /\ UNCHANGED <<err, files>>
           ELSE IF request.method = GET
           THEN IF Exists(files, filepath)
                THEN /\ pc' = [pc EXCEPT ![w] = "read"]
                     /\ UNCHANGED <<resp, err, files>>
                ELSE /\ resp' = [resp EXCEPT ![w] = <<Handle404(request)>>]
                     /\ pc' = [pc EXCEPT ![w] = "send"]
                     /\ UNCHANGED <<err, files>>
           ELSE IF request.method = POST
           THEN \E opened \in OpenForWrite(files, filepath) :
                  IF ~opened
                  THEN Raise(w, "files: OSError") /\ UNCHANGED <<resp, files>>
                  ELSE /\ files' = (filepath :> <<>>) @@ files
                       /\ pc' = [pc EXCEPT ![w] = "write"]
                       /\ UNCHANGED <<resp, err>>
           ELSE /\ resp' = [resp EXCEPT ![w] = <<>>]
                /\ pc' = [pc EXCEPT ![w] = "send"]
                /\ UNCHANGED <<err, files>>
  /\ UNCHANGED <<pending, first, client, content, wire, sockopen, posted>>

\* handle_files, lines 173-182: the file is opened and read whole, and the
\* response built.
FileRead(w) ==
  /\ pc[w] = "read"
  /\ LET filepath == Filepath(req[w])
         file_content == files[filepath]
     IN IF IsDirectory(filepath)
        THEN Raise(w, "files: IsADirectoryError") /\ UNCHANGED <<content, resp>>
        ELSE IF FileGetRaises(req[w], file_content)
        THEN /\ Raise(w, IF HasGzip(req[w]) THEN "files: AttributeError"
                          ELSE "files: UnicodeDecodeError")
             /\ content' = [content EXCEPT ![w] = file_content]
             /\ UNCHANGED resp
        ELSE /\ content' = [content EXCEPT ![w] = file_content]
             /\ resp' = [resp EXCEPT ![w] = <<FileGetResponse(req[w], file_content)>>]
             /\ pc' = [pc EXCEPT ![w] = "send"]
             /\ UNCHANGED err
  /\ UNCHANGED <<pending, first, client, req, wire, sockopen, files, posted>>

\* What a file holds after data is written at its start: the file object of
\* line 186 has its own position, 0, whatever the file holds by then.
WriteAtStart(old, data) == data \o Drop(old, Min(Len(old), Len(data)))

\* handle_files, lines 187-192: the body is written as the file is closed,
\* and the response built.
FileWrite(w) ==
  /\ pc[w] = "write"
  /\ LET filepath == Filepath(req[w])
     IN /\ files' = [files EXCEPT
                       ![filepath] = WriteAtStart(@, Utf8Encode(req[w].body))]
        /\ posted' = IF first[w] = Len(Render(client[w]))
                      THEN (filepath :> client[w].body) @@ posted
                      ELSE [q \in DOMAIN posted \ {filepath} |-> posted[q]]
  /\ resp' = [resp EXCEPT ![w] = <<FilePostResponse>>]
  /\ pc' = [pc EXCEPT ![w] = "send"]
  /\ UNCHANGED <<pending, first, client, req, content, wire, sockopen, err>>

\* handle_request, lines 131-133: the response is serialized, sent and the
\* socket closed; None has no to_raw_response.
Send(w) ==
  /\ pc[w] = "send"
  /\ IF resp[w] = <<>>
     THEN Raise(w, "send: AttributeError") /\ UNCHANGED <<wire, sockopen>>
     ELSE /\ wire' = [wire EXCEPT ![w] = Utf8Encode(ToRawResponse(resp[w][1]))]
          /\ sockopen' = [sockopen EXCEPT ![w] = FALSE]
          /\ pc' = [pc EXCEPT ![w] = "closed"]
          /\ UNCHANGED err
  /\ UNCHANGED <<pending, first, client, req, content, resp, files, posted>>

(***************************************************************************)
(* Spec: clients served one after another, the transport free to deliver   *)
(* a request in any segments.                                              *)
(***************************************************************************)
Segments(w) == 1..Min(Len(pending[w]), RecvSize)

Next ==
  \/ \E c \in Requests : Accept(1, c)
  \/ \E k \in Segments(1) : Recv(1, k)
  \/ \E k \in Segments(1) : ReadBody(1, k)
  \/ Dispatch(1)
  \/ FileRead(1)
  \/ FileWrite(1)
  \/ Send(1)

Spec == Init /\ [][Next]_vars

(***************************************************************************)
(* ConcSpec: MaxConns workers at once on one file, a request delivered     *)
(* whole or its header block first.                                        *)
(***************************************************************************)
HeadLength(bytes) ==
  LET i == Find(bytes, CRLF \o CRLF) IN IF i = 0 THEN 0 ELSE i + 3

ConcSegments(w) ==
  {Min(Len(pending[w]), RecvSize)}
  \cup {h \in {HeadLength(pending[w])} : h >= 1 /\ h <= RecvSize}

ConcNext ==
  \E w \in Workers :
    \/ \E c \in ConcRequests : Accept(w, c)
    \/ \E k \in ConcSegments(w) : Recv(w, k)
    \/ \E k \in ConcSegments(w) : ReadBody(w, k)
    \/ Dispatch(w)
    \/ FileRead(w)
    \/ FileWrite(w)
    \/ Send(w)

ConcSpec == Init /\ [][ConcNext]_vars

(***************************************************************************)
(* What a client reads off the wire.                                       *)
(***************************************************************************)
\* The bytes after the first blank line.
WireBody(bytes) == Drop(bytes, Find(bytes, CRLF \o CRLF) + 3)

\* The lines before the first blank line.
WireLines(bytes) == Split(Take(bytes, Find(bytes, CRLF \o CRLF) - 1), CRLF)

WireStatus(bytes) == ParseInt(SplitWs(WireLines(bytes)[1])[2])

\* The values the header lines give a name.
WireHeader(bytes, name) ==
  LET lines == WireLines(bytes)
  IN {Split1(lines[i], ColonSpace)[2] :
        i \in {j \in 2..Len(lines) : StartsWith(lines[j], name \o ColonSpace)}}

\* The values a response object gives a header name.
HeaderValues(response, name) ==
  {response.headers[i][2] :
     i \in {j \in 1..Len(response.headers) : response.headers[j][1] = name}}

\* Worker w's first read returned the whole request of its client.
Whole(w) == first[w] = Len(Render(client[w]))

\* Worker w's handler has returned a response object.
Responded(w) == pc[w] \in {"send", "closed"} /\ resp[w] # <<>>

\* The body w's handler computes before any compression.
PlainBody(w) ==
  LET route == Route(req[w])
  IN IF route = "root" THEN BodyOK
     ELSE IF route = "echo" THEN EchoedString(req[w])
     ELSE IF route = "user_agent" THEN UserAgent(req[w])
     ELSE IF route = "404" THEN Body404
     ELSE IF req[w].method = POST THEN <<>>
     ELSE IF resp[w][1].status_code = 404 THEN Body404
     ELSE Utf8Decode(content[w])

(***************************************************************************)
(* Claims.                                                                 *)
(***************************************************************************)
\* C1: in every response written to a connection, the value of Content-Length
\* is the number of body bytes sent after the blank line. (Stated, as C3,
\* C5, C7, C8 and C9 are, for a request that came in one read.)
C1_ContentLengthIsWireLength ==
  \A w \in Workers :
    (pc[w] = "closed" /\ Whole(w)) =>
      WireHeader(wire[w], HdrContentLength) = {Str(Len(WireBody(wire[w])))}

\* C2: when the client declares a Content-Length of N, no handler is invoked
\* before the accumulated request body holds at least N bytes.
C2_NoPartialBodyDispatched ==
  \A w \in Workers :
    (pc[w] \in {"read", "write", "send", "closed"} /\ DeclaredLength(client[w]) >= 0) =>
      Len(Utf8Encode(req[w].body)) >= DeclaredLength(client[w])

\* Worker w waits in the loop of line 123 for bytes its client, which has
\* sent its whole request, will never send.
StuckReading(w) == pc[w] = "body" /\ NeedsMore(req[w]) /\ pending[w] = <<>>

\* C3: a worker never ends without having written exactly one response and
\* closed the socket, and never waits for ever with the socket open.
C3_OneExchangeThenClosed ==
  \A w \in Workers :
    /\ (pc[w] \in {"closed", "faulted"} /\ Whole(w)) =>
         /\ wire[w] # <<>>
         /\ StartsWith(wire[w], HttpVersion)
         /\ ~sockopen[w]
    /\ ~StuckReading(w)

\* C4: a POST to /files/<name> with body B answers 201 with an empty body, and
\* a later GET of the name, gzip not accepted, answers 200 with Content-Type
\* application/octet-stream and body B, byte for byte. (Stated for a POST
\* whose request came in one read, which leaves segmentation to C2.)
C4_WriteThenRead ==
  \A w \in Workers :
    (pc[w] = "closed" /\ Route(req[w]) = "files") =>
      /\ req[w].method = POST =>
           (WireStatus(wire[w]) = 201 /\ WireBody(wire[w]) = <<>>)
      /\ (/\ req[w].method = GET
          /\ ~HasGzip(req[w])
          /\ Filepath(req[w]) \in DOMAIN posted
          /\ WireStatus(wire[w]) = 200) =>
           /\ WireBody(wire[w]) = posted[Filepath(req[w])]
           /\ WireHeader(wire[w], HdrContentType) = {OctetStream}

\* C5: once a request is decoded, the selected handler returns a response
\* object that is serialized: no worker is ended by a handler that returned
\* nothing or by a fault of a handler on what it read. (Errors of the file
\* system itself, which depend on the host, are not counted.)
C5_DispatchTotal ==
  \A w \in Workers :
    (pc[w] = "faulted" /\ Whole(w)) =>
      err[w] \notin {"send: AttributeError", "files: AttributeError",
                     "files: UnicodeDecodeError"}

\* C6: when the request's accepted encodings do not contain gzip, the response
\* carries no Content-Encoding header and its body is the handler's
\* uncompressed body, in the response object and on the wire.
C6_IdentityWithoutGzip ==
  \A w \in Workers :
    (Responded(w) /\ ~HasGzip(req[w])) =>
      /\ HeaderValues(resp[w][1], HdrContentEncoding) = {}
      /\ resp[w][1].body = PlainBody(w)
      /\ pc[w] = "closed" =>
           /\ WireHeader(wire[w], HdrContentEncoding) = {}
           /\ WireBody(wire[w]) = Utf8Encode(PlainBody(w))

\* A 200 response with a body has been sent for a request whose
\* Accept-Encoding names only the encoding that is not gzip.
C6_Witness ==
  \E w \in Workers :
    /\ pc[w] = "closed"
    /\ req[w].encodings = <<NONE>>
    /\ WireStatus(wire[w]) = 200
    /\ WireBody(wire[w]) # <<>>

\* C7: when gzip is among the request's accepted encodings, every handler
\* returns a response with Content-Encoding: gzip whose body is the gzip
\* compression of the handler's uncompressed body.
C7_GzipEverywhere ==
  \A w \in Workers :
    (HasGzip(req[w]) /\ Whole(w)) =>
      /\ pc[w] \in {"send", "closed"} =>
           /\ resp[w] # <<>>
           /\ HeaderValues(resp[w][1], HdrContentEncoding) = {GzipValue}
           /\ resp[w][1].body = Latin1Decode(Gzip(Utf8Encode(PlainBody(w))))
      /\ pc[w] = "faulted" => err[w] # "files: AttributeError"

\* C8: a GET whose query-stripped path is /echo/<value> answers 200 and, gzip
\* not accepted, its body is the percent-decoded <value> of the
\* query-stripped path.
C8_EchoPathRemainder ==
  \A w \in Workers :
    (/\ pc[w] \in {"send", "closed"}
     /\ Whole(w)
     /\ req[w].method = GET
     /\ StartsWith(TargetPath(req[w]), EchoPrefix)) =>
      /\ resp[w] # <<>>
      /\ resp[w][1].status_code = 200
      /\ ~HasGzip(req[w]) =>
           resp[w][1].body = Unquote(Drop(TargetPath(req[w]), Len(EchoPrefix)))

\* C9: a request whose query-stripped path is neither / nor /user-agent and
\* has neither the form /echo/<value> nor /files/<name> answers 404 and, gzip
\* not accepted, with body 404 Not Found and Content-Type text/plain.
C9_NoMatchIsNotFound ==
  \A w \in Workers :
    (/\ pc[w] \in {"send", "closed"}
     /\ Whole(w)
     /\ TargetPath(req[w]) \notin {RouteRoot, RouteUserAgent}
     /\ ~StartsWith(TargetPath(req[w]), EchoPrefix)
     /\ ~StartsWith(TargetPath(req[w]), FilesPrefix)) =>
      /\ resp[w] # <<>>
      /\ resp[w][1].status_code = 404
      /\ ~HasGzip(req[w]) =>
           /\ resp[w][1].body = Body404
           /\ HeaderValues(resp[w][1], HdrContentType) = {TextPlain}

\* The complete contents a file can be given: what it held at start and the
\* bodies of the POSTs of the concurrent specification.
CompleteContents ==
  {f[PathA] : f \in {g \in InitialFiles : PathA \in DOMAIN g}}
  \cup {c.body : c \in {d \in ConcRequests : d.method = POST}}

\* C10: a GET of a file that answers 200 while POSTs to the same name run
\* returns the complete body of one of the POSTs or the complete content the
\* file had before them.
C10_AtomicFileVisibility ==
  \A w \in Workers :
    (Responded(w) /\ req[w].method = GET /\ resp[w][1].status_code = 200) =>
      Utf8Encode(resp[w][1].body) \in CompleteContents

====
